---- MODULE Spec2Model ----
(***************************************************************************)
(* Model of the finex lending bot: the polling loop of main.rs driving     *)
(* SimpleStrategy::execute (strategies/simple_strategy.rs) against one     *)
(* funding account of one currency.                                        *)
(*                                                                         *)
(* Numbers.  The program computes in f64.  The model computes in exact     *)
(* integers:                                                               *)
(*   - amounts are whole currency units;                                   *)
(*   - max_balance_percent_per_loan is a fraction [num, den];              *)
(*   - a candle high is a whole number of rate units, and every rate that  *)
(*     has gone through `rate *= 0.99` (the local `rate` after line 251,   *)
(*     the rate of an offer) is kept in hundredths of a rate unit, so      *)
(*     that the 1 % discount and the 1 % tolerance are exact.              *)
(* Floating point rounding is not modelled.                                *)
(*                                                                         *)
(* Every `.await` of execute is one action: the call is issued, answered   *)
(* (or fails) and the code runs up to the next call.  The account changes  *)
(* from outside the bot only while the loop sleeps.                        *)
(*                                                                         *)
(* Specifications.  Spec is the bot on an account where offers are also    *)
(* placed from outside, FairSpec its fair version; SpecDear configures a   *)
(* min_rate above every high; SpecClosed has the bot as the only creator   *)
(* of offers; SpecSteady keeps the candles fixed, FairSteady is its fair   *)
(* version; SpecRate and SpecLoan take get_highest_rate and the clamp of   *)
(* lines 254-256 alone.                                                    *)
(***************************************************************************)
EXTENDS Integers, Sequences, FiniteSets, TLC

VARIABLES
    strategies,      \* main.rs:16      the Vec<SimpleStrategy> loaded from the config
    wallet,          \* exchange: the funding wallet of the currency
    offers,          \* exchange: the active funding offers of the currency, as listed
    si,              \* main.rs:19      position of the `for strategy in &strategies`
    pc,              \* where the loop / the running execute() stands
    evaluated,       \* how many times each strategy was executed in the current tick
    logged,          \* main.rs:22      the strategies whose error this tick has logged
    offers_at_start, \* the exchange's offers when the running cycle started
    funding_wallet,  \* execute local, Option as a sequence of length <= 1
    active_offers,   \* active_offer() local: the Vec the query returned
    active_offer,    \* execute local, Option as a sequence of length <= 1
    period,          \* execute local
    rate,            \* execute local (hundredths, after the discount)
    found_rates,     \* the value each successful get_highest_rate call returned
    loan_amount,     \* execute local
    decision,        \* which branch of lines 228-298 the cycle took
    calls,           \* the API calls the running cycle has issued, in order
    result,          \* "running", "Ok" or "Err": what execute() returned
    error,           \* the error execute() returned, "" if none
    q_candles,       \* get_highest_rate taken alone: the fetched candles' highs
    q_nth,           \* get_highest_rate taken alone: nth_highest_candle
    q_out,           \* get_highest_rate taken alone: its result
    l_in,            \* lines 254-256 taken alone: the strategy and the balances
    l_out,           \* lines 254-256 taken alone: the loan amounts computed
    healed,          \* the strategies whose latest cycle cancelled duplicates
    prev,            \* per strategy: what its latest cycle submitted, if it did
    market           \* the candle highs of each period, where they are kept fixed

vars == <<strategies, wallet, offers, si, pc, evaluated, logged,
          offers_at_start, funding_wallet,
          active_offers, active_offer, period, rate, found_rates, loan_amount,
          decision, calls, result, error, q_candles, q_nth, q_out,
          l_in, l_out, healed, prev, market>>

sysvars == <<strategies, wallet, offers, si, pc, evaluated, logged,
          offers_at_start, funding_wallet,
             active_offers, active_offer, period, rate, found_rates,
             loan_amount, decision, calls, result, error>>

qvars == <<q_candles, q_nth, q_out>>

lvars == <<l_in, l_out>>

memo == <<healed, prev, market>>

-----------------------------------------------------------------------------
(* Bounds of the model *)

NumStrategies == 2
MaxOffers == 2
MaxCandles == 2
MaxHist == 5
MaxAmount == 4

(* Literals of the program *)

DiscountPct == 99
ToleranceDen == 100
AmountTolerance == 1
FallbackPeriod == 2

(* Input sets.  Every rank of get_highest_rate is covered by SpecRate. *)

Totals == {4}
MinAmounts == {1, 3}
MaxPcts == {[num |-> 1, den |-> 2]}
MinRates == {2}
TargetPeriods == {1, 2, 3}
NthHighest == {2}
Highs == {1, 2}
ExternalAmounts == {1, 4}
ExternalRates == {199}
HistHighs == {1, 2, 3, 5, 9}
DearMinRates == {3}

(* Input sets of lines 254-256 taken alone.  The totals are even, so that
   every cap total * num / den is a whole number. *)

ClampAmounts == 0..MaxAmount
ClampTotals == {t \in 0..MaxAmount : t % 2 = 0}
ClampPcts == [num : 0..2, den : {1, 2}]

SeqsUpTo(S, n) == UNION {[1..k -> S] : k \in 0..n}

Min(a, b) == IF a < b THEN a ELSE b
Max(a, b) == IF a > b THEN a ELSE b
Abs(a) == IF a < 0 THEN -a ELSE a

RECURSIVE SumAmounts(_)
SumAmounts(offs) ==
    IF offs = <<>> THEN 0 ELSE Head(offs).amount + SumAmounts(Tail(offs))

-----------------------------------------------------------------------------
(* The pure parts of SimpleStrategy *)

\* Vec::sort_by(|a, b| b.high.partial_cmp(&a.high)): a stable sort, highest first.
\* InsertDesc puts x behind every element that is not smaller than x.
RECURSIVE InsertDesc(_, _)
InsertDesc(x, t) ==
    IF t = <<>> THEN <<x>>
    ELSE IF Head(t) >= x THEN <<Head(t)>> \o InsertDesc(x, Tail(t))
    ELSE <<x>> \o t

RECURSIVE SortDesc(_)
SortDesc(s) ==
    IF s = <<>> THEN <<>>
    ELSE InsertDesc(s[Len(s)], SortDesc(SubSeq(s, 1, Len(s) - 1)))

\* get_highest_rate without the sort of line 145: candles as fetched.
GetHighestRateUnsorted(cs, nth) ==
    IF Len(cs) < nth
    THEN [ok |-> FALSE, rate |-> 0]
    ELSE [ok |-> TRUE, rate |-> cs[nth]]

\* get_highest_rate, lines 141-147, on the highs of the fetched candles.
\* nth >= 1: the program indexes candles[nth - 1].
GetHighestRate(cs, nth) ==
    IF Len(cs) < nth
    THEN [ok |-> FALSE, rate |-> 0]
    ELSE [ok |-> TRUE, rate |-> SortDesc(cs)[nth]]

\* compute_balances returning (total, available): the tuple in the wrong order.
compute_balances_swapped(fw, ao) ==
    [available_balance |-> fw.balance,
     total_balance |->
         fw.available_balance + (IF ao = <<>> THEN 0 ELSE ao[1].amount)]

\* compute_balances, lines 151-163.
compute_balances(fw, ao) ==
    [available_balance |->
         fw.available_balance + (IF ao = <<>> THEN 0 ELSE ao[1].amount),
     total_balance |-> fw.balance]

\* Line 243 without `&& period > 2`.
RetryNeededAnyPeriod(s, r, per) == r < s.min_rate

\* Line 243: `rate < self.min_rate && period > 2`, on the rate as discovered.
RetryNeeded(s, r, per) == r < s.min_rate /\ per > 2

\* Line 251: `rate *= 0.99`; a high in rate units gives hundredths.
Discounted(high) == high * DiscountPct

\* Lines 254-256 without `available_balance.min(..)`: the cap alone.
LoanAmountIgnoringAvailable(s, available_balance, total_balance) ==
    LET pct == s.max_balance_percent_per_loan
    IN  Max(s.min_amount * pct.den, total_balance * pct.num) \div pct.den

\* Lines 254-256 without the cap: the available balance alone.
LoanAmountIgnoringCap(s, available_balance, total_balance) ==
    Max(s.min_amount, available_balance)

\* Lines 254-256 with max and min exchanged: min_amount.min(available.max(cap)).
LoanAmountMinMaxSwapped(s, available_balance, total_balance) ==
    LET pct == s.max_balance_percent_per_loan
    IN  Min(s.min_amount * pct.den,
            Max(available_balance * pct.den, total_balance * pct.num)) \div pct.den

\* Lines 254-256: min_amount.max(available.min(total * max_balance_percent)).
\* Computed in den-ths; Totals are chosen so that the cap is a whole number.
LoanAmount(s, available_balance, total_balance) ==
    LET pct == s.max_balance_percent_per_loan
    IN  Max(s.min_amount * pct.den,
            Min(available_balance * pct.den, total_balance * pct.num)) \div pct.den

\* Line 266 asking for the very same rate: `active_offer.rate != rate`.
RateDiffExceedsExact(offer_rate, r) == offer_rate # r

\* Line 260 and the first half of line 266:
\*   (active_offer.rate - rate).abs() / rate > 0.01
\* With rate = 0 the quotient is +inf (or NaN when both are 0); with a negative
\* rate it is never positive.
RateDiffExceeds(offer_rate, r) ==
    IF r > 0 THEN Abs(offer_rate - r) * ToleranceDen > r
    ELSE IF r = 0 THEN offer_rate # 0
    ELSE FALSE

\* Line 266 on the absolute difference: (active.amount - loan_amount).abs() > 1.
AmountDiffExceedsAbs(offer_amount, la) ==
    Abs(offer_amount - la) > AmountTolerance

\* Line 261 and the second half of line 266: active.amount - loan_amount > 1.
AmountDiffExceeds(offer_amount, la) == offer_amount - la > AmountTolerance

\* Lines 259-274 without the test of line 266: an active offer is always
\* cancelled and placed again.
NeedsCancelAlways(ao, r, la) == TRUE

\* Line 266.
NeedsCancel(ao, r, la) ==
    RateDiffExceeds(ao.rate, r) \/ AmountDiffExceeds(ao.amount, la)

-----------------------------------------------------------------------------
(* State *)

\* The fields of SimpleStrategy the cycle reads (lines 33-43).  monitored_window
\* only selects which candles the exchange returns, here any sequence.
Configs ==
    [min_amount : MinAmounts,
     max_balance_percent_per_loan : MaxPcts,
     min_rate : MinRates,
     target_period : TargetPeriods,
     nth_highest_candle : NthHighest]

CandleSeqs == SeqsUpTo(Highs, MaxCandles)

Call(op, id, amount, r, per, ok) ==
    [op |-> op, id |-> id, amount |-> amount, rate |-> r, period |-> per, ok |-> ok]

CallsOf(op) == SelectSeq(calls, LAMBDA c : c.op = op)

self == strategies[si]

\* The locals of execute() before it starts and after it has returned.
NoCycle ==
    /\ funding_wallet = <<>>
    /\ active_offers = <<>>
    /\ active_offer = <<>>
    /\ period = 0
    /\ rate = 0
    /\ found_rates = <<>>
    /\ loan_amount = 0
    /\ decision = "none"
    /\ calls = <<>>
    /\ result = "none"
    /\ error = ""

QIdle == q_candles = <<>> /\ q_nth = 1 /\ q_out = <<>>

LIdle == l_in = <<>> /\ l_out = <<>>

\* Nothing is remembered from one cycle to the next and no market is kept.
NoMemo ==
    /\ healed = {}
    /\ prev = [i \in 1..NumStrategies |-> <<>>]
    /\ market = <<>>

Init ==
    /\ strategies \in [1..NumStrategies -> Configs]
    /\ wallet \in UNION {[present : BOOLEAN, balance : {t},
                         available_balance : 0..t] : t \in Totals}
    /\ ~wallet.present => wallet.available_balance = 0
    /\ offers = <<>>
    /\ si = 1
    /\ pc = "loop"
    /\ evaluated = [i \in 1..NumStrategies |-> 0]
    /\ logged = {}
    /\ offers_at_start = <<>>
    /\ NoCycle
    /\ QIdle
    /\ LIdle
    /\ NoMemo

locals == <<funding_wallet, active_offers, active_offer, period, rate,
            found_rates, loan_amount, decision, calls, result, error>>

exchange == <<wallet, offers>>

hist == <<logged, offers_at_start>>

\* The running cycle: where execute() stands and its locals.
Cycle ==
    [pc |-> pc, funding_wallet |-> funding_wallet, active_offers |-> active_offers,
     active_offer |-> active_offer, period |-> period, rate |-> rate,
     found_rates |-> found_rates, loan_amount |-> loan_amount,
     decision |-> decision, calls |-> calls, result |-> result, error |-> error]

Becomes(c) ==
    /\ pc' = c.pc
    /\ funding_wallet' = c.funding_wallet
    /\ active_offers' = c.active_offers
    /\ active_offer' = c.active_offer
    /\ period' = c.period
    /\ rate' = c.rate
    /\ found_rates' = c.found_rates
    /\ loan_amount' = c.loan_amount
    /\ decision' = c.decision
    /\ calls' = c.calls
    /\ result' = c.result
    /\ error' = c.error

\* The call is issued and logged.
Called(c, call) == [c EXCEPT !.calls = Append(@, call)]

\* execute() returns Err(e): `?` or bail!.
Failed(c, e) == [c EXCEPT !.pc = "ret", !.result = "Err", !.error = e]

\* execute() returns Ok(()).
Returned(c) == [c EXCEPT !.pc = "ret", !.result = "Ok"]

-----------------------------------------------------------------------------
(* The exchange account *)

FreshId(offs) ==
    CHOOSE i \in 1..(Len(offs) + 1) : \A k \in 1..Len(offs) : offs[k].id # i

HasOffer(offs, id) == \E k \in 1..Len(offs) : offs[k].id = id

WithoutOffer(offs, id) == SelectSeq(offs, LAMBDA o : o.id # id)

AmountOf(offs, id) == SumAmounts(SelectSeq(offs, LAMBDA o : o.id = id))

-----------------------------------------------------------------------------
(* SimpleStrategy::execute, one action per awaited call *)

\* main.rs:20 calls execute(); lines 218-219.
BeginExecute ==
    /\ pc = "loop"
    /\ pc' = "funding_wallet"
    /\ result' = "running"
    /\ evaluated' = [evaluated EXCEPT ![si] = @ + 1]
    /\ offers_at_start' = offers
    /\ UNCHANGED <<strategies, si, exchange, logged, funding_wallet,
                   active_offers, active_offer, period, rate, found_rates,
                   loan_amount, decision, calls, error, qvars, lvars, memo>>

\* funding_wallet(), lines 72-85, called at line 221.
FundingWalletStep(ok) ==
    LET c == Called(Cycle, Call("wallets", 0, 0, 0, 0, ok))
    IN  IF ~ok THEN Failed(c, "Transport")
        ELSE IF ~wallet.present THEN Failed(c, "WalletNotFound")
        ELSE [c EXCEPT !.pc = "active_offer",
                       !.funding_wallet =
                           <<[balance |-> wallet.balance,
                              available_balance |-> wallet.available_balance]>>]

FundingWallet ==
    /\ pc = "funding_wallet"
    /\ \E ok \in BOOLEAN : Becomes(FundingWalletStep(ok))
    /\ UNCHANGED <<strategies, si, evaluated, hist, exchange, qvars, lvars, memo>>

\* Lines 224-237, once active_offer() has returned Ok(ao).
AfterActiveOffer(c, ao) ==
    LET b == compute_balances(c.funding_wallet[1], ao)
    IN  IF b.available_balance < self.min_amount
        THEN Returned([c EXCEPT !.active_offer = ao, !.decision = "SkipBalance"])
        ELSE [c EXCEPT !.active_offer = ao, !.pc = "rate",
                       !.period = self.target_period]

\* active_offer() with `active_offers.len() > 2` at line 97.
ActiveOfferStepTwoAllowed(ok) ==
    LET c == Called(Cycle, Call("offers", 0, 0, 0, 0, ok))
    IN  IF ~ok THEN Failed(c, "Transport")
        ELSE IF Len(offers) > 2
        THEN [c EXCEPT !.pc = "cancel_all", !.active_offers = offers]
        ELSE AfterActiveOffer(
                 [c EXCEPT !.active_offers = offers],
                 IF offers = <<>> THEN <<>> ELSE <<offers[Len(offers)]>>)

\* active_offer(), lines 88-97 and 114, called at line 222.
ActiveOfferStep(ok) ==
    LET c == Called(Cycle, Call("offers", 0, 0, 0, 0, ok))
    IN  IF ~ok THEN Failed(c, "Transport")
        ELSE IF Len(offers) > 1
        THEN [c EXCEPT !.pc = "cancel_all", !.active_offers = offers]
        ELSE AfterActiveOffer(
                 [c EXCEPT !.active_offers = offers],
                 IF offers = <<>> THEN <<>> ELSE <<offers[Len(offers)]>>)

ActiveOffer ==
    /\ pc = "active_offer"
    /\ \E ok \in BOOLEAN : Becomes(ActiveOfferStep(ok))
    /\ UNCHANGED <<strategies, si, evaluated, hist, exchange, qvars, lvars, memo>>

\* active_offer(), lines 98-111 returning Ok(None) after a cancel-all that
\* succeeded, in place of the bail: the cycle goes on as without an offer.
CancelAllStepThenContinue(ok) ==
    LET c == Called(Cycle, Call("cancel_all", 0, 0, 0, 0, ok))
    IN  IF ~ok THEN Failed(c, "Transport") ELSE AfterActiveOffer(c, <<>>)

\* active_offer(), lines 98-111 with the answer of the cancel-all dropped
\* (`let _ = ...await;`) before the bail.
CancelAllStepIgnoringFailure(ok) ==
    LET c == Called(Cycle, Call("cancel_all", 0, 0, 0, 0, ok))
    IN  Failed(c, "DuplicateOfferDetected")

\* active_offer(), lines 98-111: cancel every offer of the currency and bail.
CancelAllStep(ok) ==
    LET c == Called(Cycle, Call("cancel_all", 0, 0, 0, 0, ok))
    IN  IF ~ok THEN Failed(c, "Transport")
        ELSE Failed(c, "DuplicateOfferDetected")

CancelAll ==
    /\ pc = "cancel_all"
    /\ \E ok \in BOOLEAN :
          /\ Becomes(CancelAllStep(ok))
          /\ IF ok
             THEN /\ offers' = <<>>
                  /\ wallet' = [wallet EXCEPT !.available_balance =
                                                  @ + SumAmounts(offers)]
             ELSE UNCHANGED exchange
    /\ UNCHANGED <<strategies, si, evaluated, hist, qvars, lvars, memo>>

\* Lines 250-285 on the best rate the cycle has discovered, not the last one.
DecideWithBestRate(c, found) ==
    LET r  == Discounted(Max(found, c.found_rates[1]))
        b  == compute_balances(c.funding_wallet[1], c.active_offer)
        la == LoanAmount(self, b.available_balance, b.total_balance)
        d  == [c EXCEPT !.rate = r, !.loan_amount = la]
    IN  IF c.active_offer # <<>>
        THEN IF NeedsCancel(c.active_offer[1], r, la)
             THEN [d EXCEPT !.pc = "cancel", !.decision = "CancelAndSubmit"]
             ELSE Returned([d EXCEPT !.decision = "SkipGood"])
        ELSE [d EXCEPT !.pc = "submit", !.decision = "SubmitOnly"]

\* Lines 250-285 without the cancel of lines 267-274: the new offer is
\* submitted next to the active one.
DecideWithoutCancel(c, found) ==
    LET r  == Discounted(found)
        b  == compute_balances(c.funding_wallet[1], c.active_offer)
        la == LoanAmount(self, b.available_balance, b.total_balance)
        d  == [c EXCEPT !.rate = r, !.loan_amount = la]
    IN  IF c.active_offer # <<>>
        THEN IF NeedsCancel(c.active_offer[1], r, la)
             THEN [d EXCEPT !.pc = "submit", !.decision = "CancelAndSubmit"]
             ELSE Returned([d EXCEPT !.decision = "SkipGood"])
        ELSE [d EXCEPT !.pc = "submit", !.decision = "SubmitOnly"]

\* Lines 250-285: the discount, the clamp and the decision on the active offer.
Decide(c, found) ==
    LET r  == Discounted(found)
        b  == compute_balances(c.funding_wallet[1], c.active_offer)
        la == LoanAmount(self, b.available_balance, b.total_balance)
        d  == [c EXCEPT !.rate = r, !.loan_amount = la]
    IN  IF c.active_offer # <<>>
        THEN IF NeedsCancel(c.active_offer[1], r, la)
             THEN [d EXCEPT !.pc = "cancel", !.decision = "CancelAndSubmit"]
             ELSE Returned([d EXCEPT !.decision = "SkipGood"])
        ELSE [d EXCEPT !.pc = "submit", !.decision = "SubmitOnly"]

\* Lines 238-248, after the first get_highest_rate has returned `found`.
AfterFirstRate(c, found) ==
    IF RetryNeeded(self, found, c.period)
    THEN [c EXCEPT !.pc = "retry", !.period = FallbackPeriod]
    ELSE Decide(c, found)

\* Lines 238-247 with `.unwrap_or_default()` in place of `?`: a failed
\* get_highest_rate counts as the rate 0.
RateStepDefaultingRate(first, ok, cs) ==
    LET c == Called(Cycle, Call("candles", 0, 0, 0, period, ok))
        g == GetHighestRate(cs, self.nth_highest_candle)
        found == IF ok /\ g.ok THEN g.rate ELSE 0
        f == [c EXCEPT !.found_rates = Append(@, found)]
    IN  IF first THEN AfterFirstRate(f, found) ELSE Decide(f, found)

\* get_highest_rate(nth_highest_candle, period), lines 118-148, answered with
\* the candles cs (or failing), as called at lines 238-240 (first) and 245-247.
RateStep(first, ok, cs) ==
    LET c == Called(Cycle, Call("candles", 0, 0, 0, period, ok))
        g == GetHighestRate(cs, self.nth_highest_candle)
    IN  IF ~ok THEN Failed(c, "Transport")
        ELSE IF ~g.ok THEN Failed(c, "InsufficientData")
        ELSE LET f == [c EXCEPT !.found_rates = Append(@, g.rate)]
             IN  IF first THEN AfterFirstRate(f, g.rate) ELSE Decide(f, g.rate)

Rate ==
    /\ pc = "rate"
    /\ \/ Becomes(RateStep(TRUE, FALSE, <<>>))
       \/ \E cs \in CandleSeqs : Becomes(RateStep(TRUE, TRUE, cs))
    /\ UNCHANGED <<strategies, si, evaluated, hist, exchange, qvars, lvars, memo>>

Retry ==
    /\ pc = "retry"
    /\ \/ Becomes(RateStep(FALSE, FALSE, <<>>))
       \/ \E cs \in CandleSeqs : Becomes(RateStep(FALSE, TRUE, cs))
    /\ UNCHANGED <<strategies, si, evaluated, hist, exchange, qvars, lvars, memo>>

\* Lines 267-274 with `let _ = ...await;` in place of `.await?`: the answer of
\* the cancel is dropped.
CancelStepIgnoringFailure(ok) ==
    LET c == Called(Cycle, Call("cancel", active_offer[1].id, 0, 0, 0, ok))
    IN  [c EXCEPT !.pc = "submit"]

\* Lines 267-274: cancel the active offer by id.
CancelStep(ok) ==
    LET c == Called(Cycle, Call("cancel", active_offer[1].id, 0, 0, 0, ok))
    IN  IF ~ok THEN Failed(c, "Transport") ELSE [c EXCEPT !.pc = "submit"]

Cancel ==
    /\ pc = "cancel"
    /\ \E ok \in BOOLEAN :
          /\ ok => HasOffer(offers, active_offer[1].id)
          /\ Becomes(CancelStep(ok))
          /\ IF ok
             THEN /\ offers' = WithoutOffer(offers, active_offer[1].id)
                  /\ wallet' = [wallet EXCEPT !.available_balance =
                                   @ + AmountOf(offers, active_offer[1].id)]
             ELSE UNCHANGED exchange
    /\ UNCHANGED <<strategies, si, evaluated, hist, qvars, lvars, memo>>

\* Lines 286-307: submit the hidden limit offer.
SubmitStep(ok) ==
    LET c == Called(Cycle, Call("submit", 0, loan_amount, rate, period, ok)
                               @@ [ty |-> "Limit", hidden |-> TRUE])
    IN  IF ~ok THEN Failed(c, "Transport") ELSE Returned(c)

Submit ==
    /\ pc = "submit"
    /\ \E ok \in BOOLEAN :
          /\ ok => wallet.available_balance >= loan_amount
          /\ Becomes(SubmitStep(ok))
          /\ IF ok
             THEN /\ offers' = Append(offers, [id |-> FreshId(offers),
                                               amount |-> loan_amount,
                                               rate |-> rate])
                  /\ wallet' = [wallet EXCEPT !.available_balance =
                                                  @ - loan_amount]
             ELSE UNCHANGED exchange
    /\ UNCHANGED <<strategies, si, evaluated, hist, qvars, lvars, memo>>

-----------------------------------------------------------------------------
(* main.rs: the polling loop *)

\* Lines 19-24: the result is logged if it is an error and dropped; the for loop
\* moves to the next strategy, or to the sleep of line 26 after the last one.
AfterExecute ==
    [Cycle EXCEPT !.pc = IF si < NumStrategies THEN "loop" ELSE "sleep",
                  !.funding_wallet = <<>>, !.active_offers = <<>>,
                  !.active_offer = <<>>, !.period = 0, !.rate = 0,
                  !.found_rates = <<>>, !.loan_amount = 0, !.decision = "none",
                  !.calls = <<>>, !.result = "none", !.error = ""]

\* main.rs lines 20-23 with `strategy.execute().await?`: an error ends the loop.
ReturnOrStop ==
    /\ pc = "ret"
    /\ result = "Ok"
    /\ Becomes(AfterExecute)
    /\ si' = IF si < NumStrategies THEN si + 1 ELSE si
    /\ logged' = logged
    /\ offers_at_start' = <<>>
    /\ UNCHANGED <<strategies, evaluated, exchange, qvars, lvars, memo>>

\* main.rs lines 19-24, leaving aside what is remembered of the cycle.
ReturnCore ==
    /\ pc = "ret"
    /\ Becomes(AfterExecute)
    /\ si' = IF si < NumStrategies THEN si + 1 ELSE si
    /\ logged' = IF result = "Err" THEN logged \cup {si} ELSE logged
    /\ offers_at_start' = <<>>
    /\ UNCHANGED <<strategies, evaluated, exchange, qvars, lvars>>

Return == ReturnCore /\ UNCHANGED memo

\* main.rs lines 18-27 with the loop body raced against the 60 s timer
\* (tokio::select!): the tick drops the evaluation that is in flight.
TickCancelling ==
    /\ pc # "loop"
    /\ Becomes([AfterExecute EXCEPT !.pc = "loop"])
    /\ si' = 1
    /\ evaluated' = [i \in 1..NumStrategies |-> 0]
    /\ logged' = {}
    /\ offers_at_start' = <<>>
    /\ UNCHANGED <<strategies, exchange, qvars, lvars, memo>>

\* Line 26 then line 18: the sleep ends and the next tick starts.
Tick ==
    /\ pc = "sleep"
    /\ pc' = "loop"
    /\ si' = 1
    /\ evaluated' = [i \in 1..NumStrategies |-> 0]
    /\ logged' = {}
    /\ UNCHANGED <<strategies, exchange, offers_at_start, locals, qvars, lvars, memo>>

-----------------------------------------------------------------------------
(* The account changes from outside the bot, while the loop sleeps *)

\* The account owner places an offer by hand.
ExternalOffer ==
    /\ pc = "sleep"
    /\ Len(offers) < MaxOffers
    /\ \E a \in ExternalAmounts, r \in ExternalRates :
          /\ a <= wallet.available_balance
          /\ offers' = Append(offers, [id |-> FreshId(offers), amount |-> a,
                                       rate |-> r])
          /\ wallet' = [wallet EXCEPT !.available_balance = @ - a]
    /\ UNCHANGED <<strategies, si, pc, evaluated, hist, locals, qvars, lvars, memo>>

\* A borrower takes an offer: it is no longer active, its funds are lent.
OfferTaken ==
    /\ pc = "sleep"
    /\ \E k \in 1..Len(offers) :
          offers' = WithoutOffer(offers, offers[k].id)
    /\ UNCHANGED <<strategies, wallet, si, pc, evaluated, hist, locals, qvars, lvars, memo>>

\* A loan is repaid: one unit becomes available again.
FundsReturned ==
    /\ pc = "sleep"
    /\ wallet.present
    /\ wallet.available_balance + SumAmounts(offers) < wallet.balance
    /\ wallet' = [wallet EXCEPT !.available_balance = @ + 1]
    /\ UNCHANGED <<strategies, offers, si, pc, evaluated, hist, locals, qvars, lvars, memo>>

Next ==
    \/ BeginExecute
    \/ FundingWallet
    \/ ActiveOffer
    \/ CancelAll
    \/ Rate
    \/ Retry
    \/ Cancel
    \/ Submit
    \/ Return
    \/ Tick
    \/ ExternalOffer
    \/ OfferTaken
    \/ FundsReturned

Spec == Init /\ [][Next]_vars

\* The call the evaluation in progress is waiting for.
AwaitedCall ==
    \/ FundingWallet
    \/ ActiveOffer
    \/ CancelAll
    \/ Rate
    \/ Retry
    \/ Cancel
    \/ Submit

\* Every call of execute() that is awaited is answered, with a result or an
\* error.
FairSpec == Spec /\ WF_vars(AwaitedCall)

-----------------------------------------------------------------------------
(* The same bot configured with a min_rate above every high of the market:
   every discovery at a period above 2 is followed by the retry at period 2 *)

DearConfigs ==
    [min_amount : MinAmounts,
     max_balance_percent_per_loan : MaxPcts,
     min_rate : DearMinRates,
     target_period : TargetPeriods,
     nth_highest_candle : NthHighest]

InitDear ==
    /\ strategies \in [1..NumStrategies -> DearConfigs]
    /\ wallet \in UNION {[present : BOOLEAN, balance : {t},
                         available_balance : 0..t] : t \in Totals}
    /\ ~wallet.present => wallet.available_balance = 0
    /\ offers = <<>>
    /\ si = 1
    /\ pc = "loop"
    /\ evaluated = [i \in 1..NumStrategies |-> 0]
    /\ logged = {}
    /\ offers_at_start = <<>>
    /\ NoCycle
    /\ QIdle
    /\ LIdle
    /\ NoMemo

SpecDear == InitDear /\ [][Next]_vars

-----------------------------------------------------------------------------
(* get_highest_rate taken alone, on any candles and any rank *)

InitRate ==
    /\ strategies = [i \in 1..NumStrategies |-> CHOOSE c \in Configs : TRUE]
    /\ wallet = [present |-> FALSE, balance |-> 0, available_balance |-> 0]
    /\ offers = <<>>
    /\ si = 1
    /\ pc = "sleep"
    /\ evaluated = [i \in 1..NumStrategies |-> 0]
    /\ logged = {}
    /\ offers_at_start = <<>>
    /\ NoCycle
    /\ q_candles \in SeqsUpTo(HistHighs, MaxHist)
    /\ q_nth \in 1..(MaxHist + 1)
    /\ q_out = <<>>
    /\ LIdle
    /\ NoMemo

\* One call of get_highest_rate, lines 141-147, on the fetched candles.
QueryRate ==
    /\ q_out = <<>>
    /\ q_out' = <<GetHighestRate(q_candles, q_nth)>>
    /\ UNCHANGED <<strategies, exchange, si, pc, evaluated, hist, locals,
                   q_candles, q_nth, lvars, memo>>

NextRate == QueryRate

SpecRate == InitRate /\ [][NextRate]_vars

-----------------------------------------------------------------------------
(* Lines 254-256 taken alone, on any strategy and any two available balances *)

\* The loop is asleep and the account is not looked at.
Parked ==
    /\ strategies = [i \in 1..NumStrategies |-> CHOOSE c \in Configs : TRUE]
    /\ wallet = [present |-> FALSE, balance |-> 0, available_balance |-> 0]
    /\ offers = <<>>
    /\ si = 1
    /\ pc = "sleep"
    /\ evaluated = [i \in 1..NumStrategies |-> 0]
    /\ logged = {}
    /\ offers_at_start = <<>>
    /\ NoCycle

InitLoan ==
    /\ Parked
    /\ QIdle
    /\ l_in \in [s : [min_amount : ClampAmounts,
                      max_balance_percent_per_loan : ClampPcts],
                 total_balance : ClampTotals,
                 lower : ClampAmounts, higher : ClampAmounts]
    /\ l_in.lower <= l_in.higher
    /\ l_out = <<>>
    /\ NoMemo

\* Lines 254-256 on the lower and on the higher available balance.
ComputeLoan ==
    /\ l_in # <<>>
    /\ l_out = <<>>
    /\ l_out' = <<LoanAmount(l_in.s, l_in.lower, l_in.total_balance),
                  LoanAmount(l_in.s, l_in.higher, l_in.total_balance)>>
    /\ UNCHANGED <<strategies, exchange, si, pc, evaluated, hist, locals,
                   qvars, l_in, memo>>

NextLoan == ComputeLoan

SpecLoan == InitLoan /\ [][NextLoan]_vars

-----------------------------------------------------------------------------
(* The bot as the only creator of offers: nobody else places offers on the
   account, which may hold offers left by an earlier run.  A request that
   fails may have been applied by the exchange before its answer was lost. *)

\* The offers found on the account when the bot starts.
PriorOffers ==
    {[k \in 1..Len(t) |-> [id |-> k, amount |-> t[k].amount, rate |-> t[k].rate]] :
        t \in SeqsUpTo([amount : ExternalAmounts, rate : ExternalRates],
                       MaxOffers)}

InitClosed ==
    /\ strategies \in [1..NumStrategies -> Configs]
    /\ wallet \in UNION {[present : BOOLEAN, balance : {t},
                         available_balance : 0..t] : t \in Totals}
    /\ ~wallet.present => wallet.available_balance = 0
    /\ offers \in PriorOffers
    /\ offers # <<>> => wallet.present
    /\ wallet.available_balance + SumAmounts(offers) <= wallet.balance
    /\ si = 1
    /\ pc = "loop"
    /\ evaluated = [i \in 1..NumStrategies |-> 0]
    /\ logged = {}
    /\ offers_at_start = <<>>
    /\ NoCycle
    /\ QIdle
    /\ LIdle
    /\ NoMemo

\* Lines 98-106: the cancel-all is applied, its answer is lost.
CancelAllAnswerLost ==
    /\ pc = "cancel_all"
    /\ Becomes(CancelAllStep(FALSE))
    /\ offers' = <<>>
    /\ wallet' = [wallet EXCEPT !.available_balance = @ + SumAmounts(offers)]
    /\ UNCHANGED <<strategies, si, evaluated, hist, qvars, lvars, memo>>

\* Lines 267-274: the cancel is applied, its answer is lost.
CancelAnswerLost ==
    /\ pc = "cancel"
    /\ HasOffer(offers, active_offer[1].id)
    /\ Becomes(CancelStep(FALSE))
    /\ offers' = WithoutOffer(offers, active_offer[1].id)
    /\ wallet' = [wallet EXCEPT !.available_balance =
                                    @ + AmountOf(offers, active_offer[1].id)]
    /\ UNCHANGED <<strategies, si, evaluated, hist, qvars, lvars, memo>>

\* Lines 286-298: the offer is created, the answer of the submit is lost.
SubmitAnswerLost ==
    /\ pc = "submit"
    /\ wallet.available_balance >= loan_amount
    /\ Becomes(SubmitStep(FALSE))
    /\ offers' = Append(offers, [id |-> FreshId(offers), amount |-> loan_amount,
                                 rate |-> rate])
    /\ wallet' = [wallet EXCEPT !.available_balance = @ - loan_amount]
    /\ UNCHANGED <<strategies, si, evaluated, hist, qvars, lvars, memo>>

\* main.rs lines 19-24; the log line of line 22 tells whether the cycle that
\* returns has cancelled duplicates (lines 98-111).
ReturnNoting ==
    /\ ReturnCore
    /\ healed' = IF error = "DuplicateOfferDetected"
                 THEN healed \cup {si} ELSE healed \ {si}
    /\ UNCHANGED <<prev, market>>

NextClosed ==
    \/ BeginExecute
    \/ FundingWallet
    \/ ActiveOffer
    \/ CancelAll
    \/ CancelAllAnswerLost
    \/ Rate
    \/ Retry
    \/ Cancel
    \/ CancelAnswerLost
    \/ Submit
    \/ SubmitAnswerLost
    \/ ReturnNoting
    \/ Tick
    \/ OfferTaken
    \/ FundsReturned

SpecClosed == InitClosed /\ [][NextClosed]_vars

-----------------------------------------------------------------------------
(* The bot on a market that does not move: the candles of a period are the
   same at every call.  The strategies are copies of one another, and what
   the latest cycle of each submitted is remembered. *)

\* Quiet markets: no candle at all, or MaxCandles candles of one same high.
QuietSeqs == {<<>>} \cup {[k \in 1..MaxCandles |-> h] : h \in Highs}

\* The candles of the periods a strategy asks for: target_period and 2.
QuietMarkets(c) == [{c.target_period, FallbackPeriod} -> QuietSeqs]

\* Every strategy entry of the config file has the same fields.
InitSteady ==
    /\ \E c \in Configs : strategies = [i \in 1..NumStrategies |-> c]
    /\ wallet \in UNION {[present : BOOLEAN, balance : {t},
                         available_balance : 0..t] : t \in Totals}
    /\ ~wallet.present => wallet.available_balance = 0
    /\ offers = <<>>
    /\ si = 1
    /\ pc = "loop"
    /\ evaluated = [i \in 1..NumStrategies |-> 0]
    /\ logged = {}
    /\ offers_at_start = <<>>
    /\ NoCycle
    /\ QIdle
    /\ LIdle
    /\ healed = {}
    /\ prev = [i \in 1..NumStrategies |-> <<>>]
    /\ market \in QuietMarkets(strategies[1])

\* Lines 238-240 answered from the market.
RateKept ==
    /\ pc = "rate"
    /\ \/ Becomes(RateStep(TRUE, FALSE, <<>>))
       \/ Becomes(RateStep(TRUE, TRUE, market[period]))
    /\ UNCHANGED <<strategies, si, evaluated, hist, exchange, qvars, lvars, memo>>

\* Lines 245-247 answered from the market.
RetryKept ==
    /\ pc = "retry"
    /\ \/ Becomes(RateStep(FALSE, FALSE, <<>>))
       \/ Becomes(RateStep(FALSE, TRUE, market[period]))
    /\ UNCHANGED <<strategies, si, evaluated, hist, exchange, qvars, lvars, memo>>

\* main.rs lines 19-24; lines 300-305 log the offer a successful cycle has
\* submitted: it is remembered with the wallet it left.
ReturnRemembering ==
    /\ ReturnCore
    /\ prev' = [prev EXCEPT ![si] =
                   IF result = "Ok" /\ calls[Len(calls)].op = "submit"
                   THEN <<[offer |-> offers[Len(offers)],
                           wallet |-> [balance |-> wallet.balance,
                                       available_balance |->
                                           wallet.available_balance]]>>
                   ELSE <<>>]
    /\ UNCHANGED <<healed, market>>

NextSteady ==
    \/ BeginExecute
    \/ FundingWallet
    \/ ActiveOffer
    \/ CancelAll
    \/ RateKept
    \/ RetryKept
    \/ Cancel
    \/ Submit
    \/ ReturnRemembering
    \/ Tick
    \/ ExternalOffer
    \/ OfferTaken
    \/ FundsReturned

SpecSteady == InitSteady /\ [][NextSteady]_vars

\* The call the evaluation in progress is waiting for, on the market that
\* does not move.
AwaitedCallSteady ==
    \/ FundingWallet
    \/ ActiveOffer
    \/ CancelAll
    \/ RateKept
    \/ RetryKept
    \/ Cancel
    \/ Submit

FairSteady == SpecSteady /\ WF_vars(AwaitedCallSteady)

-----------------------------------------------------------------------------
(* Claims *)

Has(op) == \E k \in 1..Len(calls) : calls[k].op = op

Count(op) == Len(CallsOf(op))

\* What the running cycle saw: the wallet snapshot and the answer of the
\* active-offers query.
SawWallet == funding_wallet # <<>>

SawOffers == \E k \in 1..Len(calls) : calls[k].op = "offers" /\ calls[k].ok

\* wallet.available_balance + (amount of the single active offer, or 0), from
\* what the cycle saw.
SeenAvailable ==
    funding_wallet[1].available_balance
        + (IF active_offers = <<>> THEN 0
           ELSE active_offers[Len(active_offers)].amount)

\* C1: every amount a cycle submits lies between min_amount and the available
\* balance, the wallet's available balance plus the amount of the active offer.
SubmitWithinBalance ==
    \A k \in 1..Len(calls) :
        calls[k].op = "submit" =>
            /\ SawWallet /\ SawOffers /\ Len(active_offers) <= 1
            /\ self.min_amount <= calls[k].amount
            /\ calls[k].amount <= SeenAvailable

\* A cycle that replaced its offer submitted exactly the available balance.
SubmitWithinBalanceWitness ==
    /\ pc = "ret" /\ result = "Ok" /\ Has("cancel") /\ Has("submit")
    /\ loan_amount = SeenAvailable
    /\ active_offers # <<>>

\* C2 as stated: no submitted amount exceeds total_balance x
\* max_balance_percent_per_loan.
SubmitWithinCap ==
    \A k \in 1..Len(calls) :
        calls[k].op = "submit" =>
            calls[k].amount * self.max_balance_percent_per_loan.den
                <= funding_wallet[1].balance * self.max_balance_percent_per_loan.num

\* C2 amended: no submitted amount exceeds the larger of min_amount and the cap;
\* it is within the cap whenever the cap is not below min_amount.
SubmitWithinCapOrMin ==
    \A k \in 1..Len(calls) :
        calls[k].op = "submit" =>
            LET pct == self.max_balance_percent_per_loan
                a   == calls[k].amount * pct.den
                cap == funding_wallet[1].balance * pct.num
                low == self.min_amount * pct.den
            IN  /\ a <= Max(low, cap)
                /\ cap >= low => a <= cap
                /\ cap < low => a = low

\* A submit of min_amount with the cap below min_amount and more available.
SubmitWithinCapOrMinWitness ==
    /\ pc = "ret" /\ result = "Ok" /\ Has("submit")
    /\ LET pct == self.max_balance_percent_per_loan
       IN  /\ funding_wallet[1].balance * pct.num < self.min_amount * pct.den
           /\ loan_amount = self.min_amount
           /\ SeenAvailable > self.min_amount

\* C3 as stated: a cycle that starts with two or more active offers always ends
\* with DuplicateOfferDetected after exactly one cancel-all call and no
\* cancel-by-id, candle query or submit.
DuplicateAlwaysRemediated ==
    (pc = "ret" /\ Len(offers_at_start) >= 2) =>
        /\ result = "Err" /\ error = "DuplicateOfferDetected"
        /\ Count("cancel_all") = 1
        /\ ~Has("cancel") /\ ~Has("candles") /\ ~Has("submit")

\* C3 amended: a cycle whose active-offers query returned two or more offers
\* issues exactly one cancel-all call, no cancel-by-id, candle query or submit,
\* and fails: with DuplicateOfferDetected when the cancel-all call succeeded,
\* with that call's error otherwise.
DuplicateRemediation ==
    /\ (SawOffers /\ Len(active_offers) >= 2) =>
           /\ pc \in {"cancel_all", "ret"}
           /\ ~Has("cancel") /\ ~Has("candles") /\ ~Has("submit")
    /\ (pc = "ret" /\ SawOffers /\ Len(active_offers) >= 2) =>
           /\ result = "Err"
           /\ Count("cancel_all") = 1
           /\ calls[Len(calls)].op = "cancel_all"
           /\ error = IF calls[Len(calls)].ok THEN "DuplicateOfferDetected"
                      ELSE "Transport"
           /\ calls[Len(calls)].ok => offers = <<>>

DuplicateRemediationWitness ==
    /\ pc = "ret" /\ Len(active_offers) >= 2
    /\ error = "DuplicateOfferDetected" /\ offers = <<>>

\* C4: a cycle that saw less than min_amount available (the wallet's available
\* balance plus the amount of the active offer) returns Ok as a skip, having
\* issued no candle query, no cancel and no submit; the account is as it was.
InsufficientBalanceSkips ==
    (/\ pc = "ret" /\ SawWallet /\ SawOffers /\ Len(active_offers) <= 1
     /\ SeenAvailable < self.min_amount) =>
        /\ result = "Ok" /\ decision = "SkipBalance"
        /\ ~Has("candles") /\ ~Has("cancel") /\ ~Has("cancel_all")
        /\ ~Has("submit")
        /\ offers = offers_at_start
        /\ wallet.available_balance = funding_wallet[1].available_balance

InsufficientBalanceSkipsWitness ==
    /\ pc = "ret" /\ decision = "SkipBalance" /\ result = "Ok"
    /\ Len(active_offers) = 1 /\ offers = active_offers
    /\ funding_wallet[1].available_balance > 0

\* C5: a cycle makes at most two rate-discovery calls, the first for
\* target_period; the second is made exactly when the first found a rate below
\* min_rate with target_period > 2, and is for period 2; a second rate, even
\* below min_rate, is the one the decision is taken with.
OneShotRetry ==
    LET cc  == CallsOf("candles")
        low == found_rates # <<>> /\ found_rates[1] < self.min_rate
                   /\ self.target_period > 2
    IN  /\ Len(cc) <= 2
        /\ Len(found_rates) <= Len(cc)
        /\ Len(cc) >= 1 => cc[1].period = self.target_period
        /\ Len(cc) = 2 => low /\ cc[1].ok /\ cc[2].period = 2
        /\ pc = "retry" <=> (low /\ Len(cc) = 1)
        /\ (pc = "ret" /\ low) => Len(cc) = 2
        /\ Len(found_rates) = 2 =>
               /\ decision \in {"SkipGood", "CancelAndSubmit", "SubmitOnly"}
               /\ rate = found_rates[2] * DiscountPct
               /\ period = 2
               /\ error \in {"", "Transport"}
               /\ error = "Transport" => calls[Len(calls)].op \in {"cancel", "submit"}

\* The retry also found a rate below min_rate and the cycle went on to submit.
OneShotRetryWitness ==
    /\ pc = "ret" /\ Len(found_rates) = 2
    /\ found_rates[2] < self.min_rate
    /\ Has("submit") /\ result = "Ok"

\* The acceptance thresholds of C6 and C9, on the rate and the amount the
\* cycle decided with (rate is in hundredths, and positive).
RateAccepted == Abs(active_offer[1].rate - rate) * 100 <= rate

AmountAccepted == active_offer[1].amount - loan_amount <= 1

Decided == decision \in {"SkipGood", "CancelAndSubmit", "SubmitOnly"}

SubmitPeriodAtLeastTwo ==
    \A k \in 1..Len(calls) : calls[k].op = "submit" => calls[k].period >= 2

\* C8: in a tick every strategy is executed once, in order; an execute that
\* returned an error is followed by the next strategy, or by the sleep and the
\* next tick after the last one; the loop never stops.
FailureIsolation ==
    /\ \A i \in 1..NumStrategies :
          evaluated[i] = IF pc = "sleep" \/ i < si \/ (i = si /\ pc # "loop")
                         THEN 1 ELSE 0
    /\ logged \subseteq {i \in 1..NumStrategies : evaluated[i] = 1}
    /\ pc = "ret" => ENABLED Return
    /\ (pc = "ret" /\ si < NumStrategies) =>
           ENABLED (Return /\ pc' = "loop" /\ si' = si + 1)
    /\ (pc = "ret" /\ si = NumStrategies) => ENABLED (Return /\ pc' = "sleep")
    /\ pc = "loop" => ENABLED BeginExecute
    /\ pc = "sleep" => ENABLED Tick

\* A tick in which the first strategy failed and the last one was executed.
FailureIsolationWitness ==
    /\ pc = "sleep" /\ 1 \in logged
    /\ NumStrategies \notin logged
    /\ \A i \in 1..NumStrategies : evaluated[i] = 1

HighsCount(P(_)) == Cardinality({i \in 1..Len(q_candles) : P(q_candles[i])})

\* C10: with fewer candles than nth_highest, rate discovery fails; otherwise it
\* returns the high of rank nth_highest, highest first: one of the fetched
\* highs, with fewer than nth_highest highs above it and at least nth_highest
\* highs not below it.  Highs 1,5,3,9,2 and rank 2 give 5.
RateSelection ==
    q_out # <<>> =>
        /\ Len(q_candles) < q_nth => ~q_out[1].ok
        /\ Len(q_candles) >= q_nth =>
              /\ q_out[1].ok
              /\ \E i \in 1..Len(q_candles) : q_candles[i] = q_out[1].rate
              /\ HighsCount(LAMBDA h : h > q_out[1].rate) < q_nth
              /\ HighsCount(LAMBDA h : h >= q_out[1].rate) >= q_nth
        /\ (q_candles = <<1, 5, 3, 9, 2>> /\ q_nth = 2) => q_out[1].rate = 5

RateSelectionWitness ==
    /\ q_candles = <<1, 5, 3, 9, 2>> /\ q_nth = 2
    /\ q_out = <<[ok |-> TRUE, rate |-> 5]>>

\* The cap of lines 254-256, total_balance * max_balance_percent_per_loan, in
\* den-ths.
CapDen(i) == i.total_balance * i.s.max_balance_percent_per_loan.num

\* C11: for a fixed min_amount, total balance and percentage, the loan amount
\* does not decrease when the available balance grows, and it always lies
\* between min_amount and the larger of min_amount and the cap.
ClampMonotone ==
    l_out # <<>> =>
        LET den == l_in.s.max_balance_percent_per_loan.den
        IN  /\ l_out[1] <= l_out[2]
            /\ \A k \in 1..2 :
                  /\ l_in.s.min_amount <= l_out[k]
                  /\ l_out[k] * den <= Max(l_in.s.min_amount * den, CapDen(l_in))

\* The higher balance is above the cap and the lower one below it and above
\* min_amount: the amount grows with the balance up to the cap.
ClampMonotoneWitness ==
    /\ l_out # <<>>
    /\ l_in.s.min_amount < l_in.lower
    /\ l_out[1] = l_in.lower
    /\ l_out[1] < l_out[2]
    /\ l_out[2] < l_in.higher
    /\ l_out[2] * l_in.s.max_balance_percent_per_loan.den = CapDen(l_in)

\* The calls that only read: the wallet query, the offer query, the candles.
ReadOps == {"wallets", "offers", "candles"}

\* A read of the running cycle has failed: the call itself, the absent funding
\* wallet, or too few candles for the rank.
ReadFailed ==
    \/ \E k \in 1..Len(calls) : calls[k].op \in ReadOps /\ ~calls[k].ok
    \/ error \in {"WalletNotFound", "InsufficientData"}

\* C12: when a read fails (wallet query or absent wallet, active-offer query,
\* first or second rate discovery) the cycle ends in failure at that call,
\* having issued no cancel and no submit, and the account is as it was when
\* the cycle started.
ReadFailureAborts ==
    ReadFailed =>
        /\ pc = "ret"
        /\ result = "Err"
        /\ calls[Len(calls)].op \in ReadOps
        /\ ~Has("cancel")
        /\ ~Has("submit")
        /\ ~Has("cancel_all")
        /\ offers = offers_at_start

\* The second rate discovery finds too few candles while one offer is active.
ReadFailureAbortsWitness ==
    /\ pc = "ret"
    /\ error = "InsufficientData"
    /\ Count("candles") = 2
    /\ Len(offers_at_start) = 1
    /\ offers = offers_at_start
    /\ active_offer = <<offers[1]>>

\* C13: in a cycle that replaces an offer, the cancel of the active offer's id
\* is issued and answered before the submit is issued, the offer being gone
\* from the account by then; a failed cancel is the last call of a cycle that
\* ends in failure without a submit.
CancelThenSubmit ==
    /\ \A k \in 1..Len(calls) :
          calls[k].op = "cancel" =>
              /\ calls[k].id = active_offer[1].id
              /\ \A j \in 1..Len(calls) : calls[j].op = "submit" => k < j
              /\ ~calls[k].ok =>
                    /\ k = Len(calls)
                    /\ pc = "ret"
                    /\ result = "Err"
    /\ decision = "CancelAndSubmit" =>
          /\ pc = "cancel" => ~Has("cancel") /\ ~Has("submit")
          /\ pc = "submit" =>
                /\ calls[Len(calls)].op = "cancel"
                /\ calls[Len(calls)].ok
                /\ ~HasOffer(offers, active_offer[1].id)
          /\ Has("submit") =>
                /\ Len(calls) >= 2
                /\ calls[Len(calls)].op = "submit"
                /\ calls[Len(calls) - 1].op = "cancel"
                /\ calls[Len(calls) - 1].ok

\* An offer was cancelled and its replacement submitted.
CancelThenSubmitWitness ==
    /\ pc = "ret"
    /\ result = "Ok"
    /\ decision = "CancelAndSubmit"
    /\ calls[Len(calls)].op = "submit"
    /\ calls[Len(calls) - 1].op = "cancel"
    /\ calls[Len(calls) - 1].id = offers_at_start[1].id
    /\ Len(offers) = 1

\* C14: with the bot as the only creator of offers, an account that holds at
\* most one active offer never comes to hold more than one, whatever calls
\* fail and however many strategies run on the account.
AtMostOneOffer == [][Len(offers) <= 1 => Len(offers') <= 1]_vars

\* The second strategy has replaced the offer it found: one offer again.
AtMostOneOfferWitness ==
    /\ pc = "ret"
    /\ si = NumStrategies
    /\ result = "Ok"
    /\ decision = "CancelAndSubmit"
    /\ Len(offers_at_start) = 1
    /\ Len(offers) = 1
    /\ offers # offers_at_start

\* C15: every submit is a hidden limit offer; its period is target_period when
\* the cycle made one rate discovery and 2 when it made the retry, which is the
\* period of the last discovery call; its rate is 0.99 times the rate that
\* last call returned (rates of offers are in hundredths), never the rate of
\* the first call once the retry was made.
SubmitTermsFromLastDiscovery ==
    \A k \in 1..Len(calls) :
        calls[k].op = "submit" =>
            LET cs == CallsOf("candles")
            IN  /\ calls[k].ty = "Limit"
                /\ calls[k].hidden
                /\ Len(cs) \in {1, 2}
                /\ Len(found_rates) = Len(cs)
                /\ \A j \in 1..Len(calls) : calls[j].op = "candles" => j < k
                /\ calls[k].period =
                       (IF Len(cs) = 2 THEN 2 ELSE self.target_period)
                /\ calls[k].period = cs[Len(cs)].period
                /\ calls[k].rate = 99 * found_rates[Len(cs)]

\* The retry returned a lower rate than the first call, and it is the retry's
\* rate that is submitted, for 2 days.
SubmitTermsFromLastDiscoveryWitness ==
    /\ pc = "ret"
    /\ result = "Ok"
    /\ Len(found_rates) = 2
    /\ found_rates[1] > found_rates[2]
    /\ self.target_period > 2
    /\ calls[Len(calls)].op = "submit"
    /\ calls[Len(calls)].period = 2
    /\ calls[Len(calls)].rate = 99 * found_rates[2]

\* The strategy whose cycle ran just before the cycle of strategy i.
PrevStrategy(i) == IF i = 1 THEN NumStrategies ELSE i - 1

\* The running cycle has received the answer of its offer query.
Observed == pc \notin {"loop", "sleep", "funding_wallet"} /\ SawOffers

\* No call of the running cycle has failed and the candles sufficed.
AllAnswered ==
    /\ \A k \in 1..Len(calls) : calls[k].ok
    /\ error \notin {"WalletNotFound", "InsufficientData"}

\* C16 as stated: after a cycle of a strategy has cancelled duplicates, the
\* next cycle of that same strategy observes no active offer, does not fail
\* with DuplicateOfferDetected and issues no cancel.
HealedOwnNextCycle ==
    (si \in healed /\ Observed) =>
        /\ active_offers = <<>>
        /\ error # "DuplicateOfferDetected"
        /\ ~Has("cancel")
        /\ ~Has("cancel_all")

\* C16: after a cycle has cancelled duplicates, the next cycle that runs on
\* the account observes no active offer, does not fail with
\* DuplicateOfferDetected and issues no cancel; when none of its calls fails
\* and the balance and the candles suffice, it ends Ok having submitted
\* exactly one offer, the only one of the account.
HealedNextCycle ==
    (PrevStrategy(si) \in healed /\ Observed) =>
        /\ active_offers = <<>>
        /\ error # "DuplicateOfferDetected"
        /\ ~Has("cancel")
        /\ ~Has("cancel_all")
        /\ (pc = "ret" /\ AllAnswered /\ SeenAvailable >= self.min_amount) =>
              /\ result = "Ok"
              /\ Count("submit") = 1
              /\ calls[Len(calls)].op = "submit"
              /\ Len(offers) = 1

\* The cycle after the one that cancelled two offers has submitted one.
HealedNextCycleWitness ==
    /\ PrevStrategy(si) \in healed
    /\ pc = "ret"
    /\ result = "Ok"
    /\ active_offers = <<>>
    /\ Count("submit") = 1
    /\ Len(offers) = 1

\* The running cycle observes, as the single active offer, the offer its own
\* previous cycle submitted, and the wallet as that submit left it: same total,
\* available balance reduced by the amount of the offer.
SeesOwnOffer ==
    /\ prev[si] # <<>>
    /\ Observed
    /\ active_offers = <<prev[si][1].offer>>
    /\ funding_wallet = <<prev[si][1].wallet>>

\* C17: on a market that has not moved, a cycle that observes the offer its
\* strategy's previous cycle submitted, and the wallet as that submit left it,
\* issues no cancel and no submit; when its calls are answered it ends Ok on
\* "the active offer is good enough".
StableAfterSubmit ==
    SeesOwnOffer =>
        /\ ~Has("cancel")
        /\ ~Has("submit")
        /\ ~Has("cancel_all")
        /\ pc \notin {"cancel", "submit", "cancel_all"}
        /\ (pc = "ret" /\ AllAnswered) =>
              result = "Ok" /\ decision = "SkipGood"

\* The cycle after a submit has looked at the offer and kept it.
StableAfterSubmitWitness ==
    /\ SeesOwnOffer
    /\ pc = "ret"
    /\ result = "Ok"
    /\ decision = "SkipGood"
    /\ offers = <<prev[si][1].offer>>

\* C18: a cycle issues at most one cancel-all, at most one cancel by id and at
\* most one submit; a cancel-all is the last call of its cycle, which ends
\* there; a cancel by id carries the id of the one active offer the cycle
\* observed.
BoundedMutation ==
    /\ Count("cancel_all") <= 1
    /\ Count("cancel") <= 1
    /\ Count("submit") <= 1
    /\ \A k \in 1..Len(calls) :
          /\ calls[k].op = "cancel_all" =>
                /\ k = Len(calls)
                /\ pc = "ret"
                /\ ~Has("cancel")
                /\ ~Has("submit")
          /\ calls[k].op = "cancel" =>
                /\ Len(active_offers) = 1
                /\ calls[k].id = active_offers[1].id

\* The most a cycle does to the account: one cancel by id, then one submit.
BoundedMutationWitness ==
    /\ pc = "ret"
    /\ Count("cancel") = 1
    /\ Count("submit") = 1
    /\ Count("cancel_all") = 0
    /\ CallsOf("cancel")[1].id = active_offers[1].id

\* An evaluation is in progress: execute() has been called and has not
\* returned.
InProgress ==
    pc \in {"funding_wallet", "active_offer", "cancel_all", "rate", "retry",
            "cancel", "submit"}

\* The terminal outcomes of an evaluation, when execute() has returned.
NoAction == result = "Ok" /\ decision \in {"SkipBalance", "SkipGood"}

Submitted ==
    /\ result = "Ok"
    /\ decision \in {"SubmitOnly", "CancelAndSubmit"}
    /\ calls[Len(calls)].op = "submit"
    /\ calls[Len(calls)].ok

Failure == result = "Err" /\ error # ""

Terminal ==
    /\ pc = "ret"
    /\ NoAction \/ Submitted \/ Failure
    /\ ~(NoAction /\ Submitted)

\* The evaluations of the tick so far: those of the strategies before si have
\* ended, the one of si is the only one that may be in progress, those after
\* si have not started.
OneAtATime ==
    /\ \A i \in 1..NumStrategies :
          evaluated[i] = (IF i < si \/ (i = si /\ pc \notin {"loop"}) THEN 1 ELSE 0)
    /\ InProgress => result = "running"
    /\ pc \in {"loop", "sleep"} => NoCycle

\* C19: when every call is answered, every evaluation that starts reaches one
\* of the terminal outcomes NoAction, Submitted or Failed, in at most six
\* calls; one evaluation at most is in progress; the next evaluation, or the
\* sleep before the next tick, starts only from a terminal outcome.
RunToCompletion ==
    /\ InProgress ~> Terminal
    /\ [](OneAtATime /\ Len(calls) <= 6 /\ (pc = "ret" => Terminal))
    /\ [][(pc' \in {"loop", "sleep"} /\ pc \notin {"loop", "sleep"}) => Terminal]_vars
    /\ [][(pc' = "funding_wallet" /\ pc # "funding_wallet") =>
              (pc = "loop" /\ NoCycle)]_vars

\* The second strategy of a tick has reached Submitted after six calls.
RunToCompletionWitness ==
    /\ Terminal
    /\ Submitted
    /\ si = NumStrategies
    /\ Len(calls) = 6

====
